---- MODULE Spec2Model ----
(***************************************************************************)
(* A model of the two core components of the PortEden CLI:                 *)
(*   - api.Client.doWithRetry, the retrying HTTP request executor, and     *)
(*   - auth.Login / auth.pollForCompletion, the browser login flow, with   *)
(*     the file-backed credential store it writes to.                      *)
(***************************************************************************)
EXTENDS Integers, Sequences, FiniteSets, TLC

(***************************************************************************)
(* time.Duration: a signed 64-bit count of nanoseconds.  A value is kept   *)
(* as three base-10^9 limbs <<a, b, c>> = a*10^18 + b*10^9 + c with        *)
(* 0 <= b, c < 10^9 and a signed, so that 64-bit wrap-around is computed   *)
(* exactly.                                                                *)
(***************************************************************************)
Second == 1000000000

Zero == <<0, 0, 0>>

\* n seconds as a Duration (n a small integer, possibly negative).
Secs(n) == <<n \div Second, n % Second, 0>>

\* The integer n (small) as a two-limb integer <<hi, lo>> = hi*10^9 + lo.
Int2(n) == <<n \div Second, n % Second>>

DLess(x, y) ==
    \/ x[1] < y[1]
    \/ x[1] = y[1] /\ x[2] < y[2]
    \/ x[1] = y[1] /\ x[2] = y[2] /\ x[3] < y[3]

DAdd(x, y) ==
    LET c3 == x[3] + y[3]
        k3 == IF c3 >= Second THEN 1 ELSE 0
        c2 == x[2] + y[2] + k3
        k2 == IF c2 >= Second THEN 1 ELSE 0
    IN  <<x[1] + y[1] + k2, c2 - k2 * Second, c3 - k3 * Second>>

DSub(x, y) ==
    LET c3 == x[3] - y[3]
        b3 == IF c3 < 0 THEN 1 ELSE 0
        c2 == x[2] - y[2] - b3
        b2 == IF c2 < 0 THEN 1 ELSE 0
    IN  <<x[1] - y[1] - b2, c2 + b2 * Second, c3 + b3 * Second>>

Two63 == <<9, 223372036, 854775808>>
Two64 == <<18, 446744073, 709551616>>
MinInt64 == DSub(Zero, Two63)

\* Two's-complement wrap of an integer into the int64 range.
RECURSIVE Int64(_)
Int64(x) ==
    IF ~DLess(x, Two63) THEN Int64(DSub(x, Two64))
    ELSE IF DLess(x, MinInt64) THEN Int64(DAdd(x, Two64))
    ELSE x

\* Go's builtin min on two Durations.
DMin(x, y) == IF DLess(y, x) THEN y ELSE x

\* d * 2 in int64 arithmetic.
DTwice(d) == Int64(DAdd(d, d))

\* time.Duration(seconds) * time.Second, seconds an int given as <<hi, lo>>.
SecondsToDuration(seconds) == Int64(<<seconds[1], seconds[2], 0>>)

(***************************************************************************)
(* Constants of the retrying executor.                                     *)
(***************************************************************************)
maxRetries == 3
initialBackoff == Secs(1)
maxBackoff == Secs(30)

isRetryable_Plus404(statusCode) == statusCode \in {404, 429, 500, 502, 503, 504}

isRetryable(statusCode) == statusCode \in {429, 500, 502, 503, 504}

(***************************************************************************)
(* Inputs of one doWithRetry call.                                         *)
(***************************************************************************)
MaxBodyLen == 2

\* A []byte payload: nil, or a byte string of at most MaxBodyLen bytes (the
\* i-th byte is i, so that every proper part of a payload differs from it).
BodyBytes == {[i \in 1..n |-> i] : n \in 0..MaxBodyLen}
Bodies == {[nil |-> TRUE, bytes |-> <<>>]} \cup {[nil |-> FALSE, bytes |-> b] : b \in BodyBytes}

\* The Retry-After header of a response: absent, a decimal integer of
\* seconds (what strconv.Atoi accepts), an HTTP date (given by the value
\* time.Until returns for it), or text that is neither.
NoHeader == [kind |-> "absent", seconds |-> Int2(0), until |-> Zero]
SecondsHeader(s) == [kind |-> "seconds", seconds |-> s, until |-> Zero]
DateHeader(d) == [kind |-> "date", seconds |-> Int2(0), until |-> d]
GarbageHeader == [kind |-> "garbage", seconds |-> Int2(0), until |-> Zero]

RetryAfterHeaders ==
    { NoHeader, GarbageHeader,
      SecondsHeader(Int2(5)), SecondsHeader(Int2(100)),
      SecondsHeader(Int2(0)), SecondsHeader(Int2(-5)),
      SecondsHeader(<<9, 223372037>>), SecondsHeader(<<18, 446744074>>),
      DateHeader(Secs(7)), DateHeader(Secs(-5)) }

TransientStatuses == {429, 500, 502, 503, 504}
OtherStatuses == {200, 400, 404, 501}
NetErrs == {"connection refused", "no such host"}

NoErr == [kind |-> "none"]
NetErr(e) == [kind |-> "net", what |-> e]
HttpErr(code) == [kind |-> "http", code |-> code]
CtxErr(c) == [kind |-> "ctx", what |-> c]
NewRequestErr == [kind |-> "newrequest"]
RetriesErr(cause) == [kind |-> "retries", retries |-> maxRetries, cause |-> cause]

NoOutcome == [kind |-> "none"]
NetOutcome(e) == [kind |-> "net", what |-> e]
StatusOutcome(code, h) == [kind |-> "status", code |-> code, hdr |-> h]

NoReader == [open |-> FALSE, data |-> <<>>, pos |-> 0]

\* What a public Client operation returns: the bytes read from the response
\* body ("nil", the whole "body", or the "partial" body read before a read
\* error) and an error.
ApiErr(code) == [kind |-> "api", code |-> code]
ReadErr == [kind |-> "read"]
NoClientResult == [data |-> "nil", err |-> NoErr]

VARIABLES
    body,        \* the []byte payload passed to doWithRetry
    urlOK,       \* whether http.NewRequestWithContext accepts method and URL
    ctx,         \* the caller's context: "active", "canceled" or "deadline"
    pc,          \* position of the call: "send", "inflight", "wait", "done"
    attempt,     \* the loop counter
    backoff,     \* the backoff variable
    lastErr,     \* the lastErr variable
    bodyReader,  \* the io.Reader handed to the request of the current attempt
    nReq,        \* number of HTTP requests put on the wire
    lastSent,    \* the body bytes carried by the most recent request
    waits,       \* the durations of the backoff waits started so far
    lastOutcome, \* how the most recent attempt ended
    onlyTransient, \* every attempt so far ended in a retryable status
    hdrSeen,     \* some response so far carried a Retry-After header
    result,      \* what doWithRetry returned: [resp, err]
    clientResult \* what Client.Get/Post/Patch/Delete returned: [data, err]

retryVars == <<body, urlOK, ctx, pc, attempt, backoff, lastErr, bodyReader, nReq,
               lastSent, waits, lastOutcome, onlyTransient, hdrSeen, result,
               clientResult>>

VARIABLES
    profile,     \* the profile argument of Login
    interrupted, \* ctx.Done() of Login's signal context has fired (os.Interrupt)
    lpc,         \* position of Login: "start", "initiating", "delay", "loop",
                 \*   "polling", "done"
    timeout,     \* pollForCompletion's overall timeout, in seconds
    clock,       \* seconds elapsed since pollForCompletion created its timers
    nextTick,    \* when the ticker ticks next
    tickBuf,     \* ticker.C holds a tick that was not received yet
    reqSent,     \* when the poll request in flight was sent
    reqEnd,      \* when the poll request in flight will have ended
    nInit,       \* number of session-creation requests sent
    nPolls,      \* number of poll requests sent
    pendingOnly, \* every poll before the most recent one got a 200 with status pending
    lastPoll,    \* how the most recent poll request ended (NoPoll while in flight)
    pollResult,  \* what pollForCompletion returned: [done, key, err]
    loginResult, \* what Login returned: [done, key, err]
    store,       \* the credential store singleton: [init, active, profiles]
    progress,    \* Login was given a progress with an OnBrowserOpen callback
    urlShown,    \* OnBrowserOpen was called with the login URL
    browser,     \* browser.OpenURL: "none" (not called), "opened" or "failed"
    lastInit     \* how the session-creation request ended (NoInit before)

loginVars == <<profile, interrupted, lpc, timeout, clock, nextTick, tickBuf, reqSent,
               reqEnd, nInit, nPolls, pendingOnly, lastPoll, pollResult,
               loginResult, store, progress, urlShown, browser, lastInit>>

\* The credential store as package auth and the CLI commands see it.
VARIABLES
    procStore,   \* the package variable "store" of the running process
    credFile,    \* the content of ~/.config/porteden/credentials.json
    envKey,      \* the PE_API_KEY environment variable
    lastOp       \* the most recent operation or command and what it returned

cliVars == <<procStore, credFile, envKey, lastOp>>

\* Concurrent doWithRetry invocations on one Client.
VARIABLES
    frames,      \* the local variables attempt, backoff, lastErr of each invocation
    calls        \* each invocation's position, attempt outcomes, waits and result

concVars == <<frames, calls>>

\* Auto-pagination: one GetAllEmails or GetAllEvents call.
VARIABLES
    emPc,        \* position of GetAllEmails: "idle", "loop", "returned"
    page,        \* the loop counter of GetAllEmails
    pageToken,   \* params.PageToken
    allEmails,   \* the emails collected so far
    emResponses, \* what c.GetEmails answered to each request so far
    emResult,    \* what GetAllEmails returned
    evPc,        \* position of GetAllEvents: "idle", "loop", "returned"
    offset,      \* the local variable offset of GetAllEvents
    allEvents,   \* the events collected so far
    evRequests,  \* each GetEvents request so far: its params.Offset and the answer
    evResult     \* what GetAllEvents returned

pageVars == <<emPc, page, pageToken, allEmails, emResponses, emResult,
              evPc, offset, allEvents, evRequests, evResult>>

vars == <<retryVars, loginVars, cliVars, concVars, pageVars>>

(***************************************************************************)
(* getRetryAfter: the duration a Retry-After header asks for, 0 when the   *)
(* header is absent or unparseable.                                        *)
(***************************************************************************)
getRetryAfter(h) ==
    IF h.kind = "absent" THEN Zero
    ELSE IF h.kind = "seconds" THEN SecondsToDuration(h.seconds)
    ELSE IF h.kind = "date" THEN h.until
    ELSE Zero

\* backoff = min(backoff*2, maxBackoff)
DoubledBackoff_NoDoubling(b) == DMin(b, maxBackoff)

DoubledBackoff(b) == DMin(DTwice(b), maxBackoff)

\* The backoff after a retryable response with Retry-After header h.
BackoffAfterResponse_NoCap(h, b) ==
    LET retryAfter == getRetryAfter(h)
    IN  IF DLess(Zero, retryAfter) THEN retryAfter
        ELSE DoubledBackoff(b)

BackoffAfterResponse_AnyHeader(h, b) ==
    LET retryAfter == getRetryAfter(h)
    IN  IF h.kind # "absent" THEN DMin(retryAfter, maxBackoff)
        ELSE DoubledBackoff(b)

BackoffAfterResponse(h, b) ==
    LET retryAfter == getRetryAfter(h)
    IN  IF DLess(Zero, retryAfter) THEN DMin(retryAfter, maxBackoff)
        ELSE DoubledBackoff(b)

\* bytes.NewReader(body) on every attempt; nil body gives a nil reader.
FreshReader_Reused(b, old) ==
    IF old.open THEN old
    ELSE [open |-> ~b.nil, data |-> b.bytes, pos |-> 0]

FreshReader(b, old) == [open |-> ~b.nil, data |-> b.bytes, pos |-> 0]

\* What a request reads from its body reader when it is sent.
Remaining(r) == IF r.open THEN SubSeq(r.data, r.pos + 1, Len(r.data)) ELSE <<>>

\* lastErr = err
RecordErr_KeepFirst(old, new) == IF old = NoErr THEN new ELSE old

RecordErr(old, new) == new

\* The loop condition attempt <= maxRetries, for the incremented counter.
LoopContinues_OneMore(a) == a <= maxRetries + 1

LoopContinues(a) == a <= maxRetries

\* The select of the backoff wait takes the timer case only while ctx.Done()
\* has not fired: a blocked select is woken by the first channel that
\* becomes ready, and time.After(backoff) is never ready on entry.
TimerWins_Always(c) == TRUE

TimerWins(c) == c = "active"

InitRetry ==
    /\ body \in Bodies
    /\ urlOK \in BOOLEAN
    /\ ctx = "active"
    /\ pc = "send"
    /\ attempt = 0
    /\ backoff = initialBackoff
    /\ lastErr = NoErr
    /\ bodyReader = NoReader
    /\ nReq = 0
    /\ lastSent = <<>>
    /\ waits = <<>>
    /\ lastOutcome = NoOutcome
    /\ onlyTransient = TRUE
    /\ hdrSeen = FALSE
    /\ result = [resp |-> 0, err |-> NoErr]
    /\ clientResult = NoClientResult

\* The end of a failed loop iteration: record the error and the new backoff,
\* then either start the next iteration's backoff wait or leave the loop.
AttemptFailed(err, newBackoff) ==
    /\ lastErr' = RecordErr(lastErr, err)
    /\ backoff' = newBackoff
    /\ IF LoopContinues(attempt + 1)
       THEN /\ attempt' = attempt + 1
            /\ pc' = "wait"
            /\ waits' = Append(waits, newBackoff)
            /\ result' = result
       ELSE /\ pc' = "done"
            /\ result' = [resp |-> 0, err |-> RetriesErr(lastErr')]
            /\ UNCHANGED <<attempt, waits>>

\* http.NewRequestWithContext rejects the method or URL: return nil, err.
NewRequestFails ==
    /\ pc = "send"
    /\ ~urlOK
    /\ bodyReader' = FreshReader(body, bodyReader)
    /\ pc' = "done"
    /\ result' = [resp |-> 0, err |-> NewRequestErr]
    /\ UNCHANGED <<body, urlOK, ctx, attempt, backoff, lastErr, nReq, lastSent,
                   waits, lastOutcome, onlyTransient, hdrSeen>>
    /\ UNCHANGED clientResult
    /\ UNCHANGED <<loginVars, cliVars, concVars, pageVars>>

\* c.httpClient.Do(req) puts the request on the wire.
SendRequest ==
    /\ pc = "send"
    /\ urlOK
    /\ ctx = "active"
    /\ bodyReader' = FreshReader(body, bodyReader)
    /\ lastSent' = Remaining(bodyReader')
    /\ nReq' = nReq + 1
    /\ pc' = "inflight"
    /\ UNCHANGED <<body, urlOK, ctx, attempt, backoff, lastErr, waits,
                   lastOutcome, onlyTransient, hdrSeen, result>>
    /\ UNCHANGED clientResult
    /\ UNCHANGED <<loginVars, cliVars, concVars, pageVars>>

\* c.httpClient.Do(req) with a context that is already done: the transport
\* returns the context's error before it writes anything.
SendAborted ==
    /\ pc = "send"
    /\ urlOK
    /\ ctx # "active"
    /\ bodyReader' = FreshReader(body, bodyReader)
    /\ lastOutcome' = NetOutcome(ctx)
    /\ onlyTransient' = FALSE
    /\ AttemptFailed(NetErr(ctx), DoubledBackoff(backoff))
    /\ UNCHANGED <<body, urlOK, ctx, nReq, lastSent, hdrSeen>>
    /\ UNCHANGED clientResult
    /\ UNCHANGED <<loginVars, cliVars, concVars, pageVars>>

\* The errors c.httpClient.Do(req) can return for a request in flight: the
\* request was built with http.NewRequestWithContext(ctx, ...), so once ctx
\* is done the transport may abandon the call and return the context's error.
DoErrors_AnyCtxErr(c) == NetErrs \cup {"canceled", "deadline"}

DoErrors(c) == IF c = "active" THEN NetErrs ELSE NetErrs \cup {c}

\* Do returns an error: a network failure after k body bytes were read, or
\* the context's error when the context ended during the call.
RecvNetErr ==
    /\ pc = "inflight"
    /\ \E e \in DoErrors(ctx),
          k \in 0..Len(Remaining(bodyReader)) :
          /\ bodyReader' = [bodyReader EXCEPT !.pos = @ + k]
          /\ lastOutcome' = NetOutcome(e)
          /\ onlyTransient' = FALSE
          /\ AttemptFailed(NetErr(e), DoubledBackoff(backoff))
    /\ UNCHANGED <<body, urlOK, ctx, nReq, lastSent, hdrSeen>>
    /\ UNCHANGED clientResult
    /\ UNCHANGED <<loginVars, cliVars, concVars, pageVars>>

\* Do returns a response whose status is not retryable: return resp, nil.
RecvFinalResponse ==
    /\ pc = "inflight"
    /\ \E code \in TransientStatuses \cup OtherStatuses :
          /\ ~isRetryable(code)
          /\ lastOutcome' = StatusOutcome(code, NoHeader)
          /\ onlyTransient' = (onlyTransient /\ code \in TransientStatuses)
          /\ result' = [resp |-> code, err |-> NoErr]
    /\ bodyReader' = [bodyReader EXCEPT !.pos = Len(bodyReader.data)]
    /\ pc' = "done"
    /\ UNCHANGED <<body, urlOK, ctx, attempt, backoff, lastErr, nReq, lastSent,
                   waits, hdrSeen>>
    /\ UNCHANGED clientResult
    /\ UNCHANGED <<loginVars, cliVars, concVars, pageVars>>

\* Do returns a retryable response: close it, record "HTTP <code>", take the
\* next backoff from Retry-After or by doubling.
RecvRetryableResponse ==
    /\ pc = "inflight"
    /\ \E code \in TransientStatuses \cup OtherStatuses, h \in RetryAfterHeaders :
          /\ isRetryable(code)
          /\ lastOutcome' = StatusOutcome(code, h)
          /\ onlyTransient' = (onlyTransient /\ code \in TransientStatuses)
          /\ hdrSeen' = (hdrSeen \/ h.kind # "absent")
          /\ AttemptFailed(HttpErr(code), BackoffAfterResponse(h, backoff))
    /\ bodyReader' = [bodyReader EXCEPT !.pos = Len(bodyReader.data)]
    /\ UNCHANGED <<body, urlOK, ctx, nReq, lastSent>>
    /\ UNCHANGED clientResult
    /\ UNCHANGED <<loginVars, cliVars, concVars, pageVars>>

\* case <-time.After(backoff): the wait is over, go on to the attempt.
BackoffElapsed ==
    /\ pc = "wait"
    /\ TimerWins(ctx)
    /\ pc' = "send"
    /\ UNCHANGED <<body, urlOK, ctx, attempt, backoff, lastErr, bodyReader, nReq,
                   lastSent, waits, lastOutcome, onlyTransient, hdrSeen, result>>
    /\ UNCHANGED clientResult
    /\ UNCHANGED <<loginVars, cliVars, concVars, pageVars>>

\* case <-ctx.Done(): return nil, ctx.Err()
BackoffCancelled ==
    /\ pc = "wait"
    /\ ctx # "active"
    /\ pc' = "done"
    /\ result' = [resp |-> 0, err |-> CtxErr(ctx)]
    /\ UNCHANGED <<body, urlOK, ctx, attempt, backoff, lastErr, bodyReader, nReq,
                   lastSent, waits, lastOutcome, onlyTransient, hdrSeen>>
    /\ UNCHANGED clientResult
    /\ UNCHANGED <<loginVars, cliVars, concVars, pageVars>>

\* The caller cancels the context, or its deadline passes.
ContextEnds ==
    /\ pc # "done"
    /\ ctx = "active"
    /\ ctx' \in {"canceled", "deadline"}
    /\ UNCHANGED <<body, urlOK, pc, attempt, backoff, lastErr, bodyReader, nReq,
                   lastSent, waits, lastOutcome, onlyTransient, hdrSeen, result>>
    /\ UNCHANGED clientResult
    /\ UNCHANGED <<loginVars, cliVars, concVars, pageVars>>

\* Client.Get/Post/Patch/Delete after doWithRetry returned: pass its error
\* on, turn a status of 400 or more into an APIError, else read the body.
ClientReturn_Raw(res, readOK) ==
    IF res.err # NoErr THEN [data |-> "nil", err |-> res.err]
    ELSE IF readOK THEN [data |-> "body", err |-> NoErr]
    ELSE [data |-> "partial", err |-> ReadErr]

ClientReturn(res, readOK) ==
    IF res.err # NoErr THEN [data |-> "nil", err |-> res.err]
    ELSE IF res.resp >= 400 THEN [data |-> "nil", err |-> ApiErr(res.resp)]
    ELSE IF readOK THEN [data |-> "body", err |-> NoErr]
    ELSE [data |-> "partial", err |-> ReadErr]

ClientReturns ==
    /\ pc = "done"
    /\ clientResult = NoClientResult
    /\ \E readOK \in BOOLEAN : clientResult' = ClientReturn(result, readOK)
    /\ UNCHANGED <<body, urlOK, ctx, pc, attempt, backoff, lastErr, bodyReader, nReq,
                   lastSent, waits, lastOutcome, onlyTransient, hdrSeen, result>>
    /\ UNCHANGED <<loginVars, cliVars, concVars, pageVars>>

NextRetry ==
    \/ NewRequestFails
    \/ SendRequest
    \/ SendAborted
    \/ RecvNetErr
    \/ RecvFinalResponse
    \/ RecvRetryableResponse
    \/ BackoffElapsed
    \/ BackoffCancelled
    \/ ContextEnds
    \/ ClientReturns

(***************************************************************************)
(* The credential store (package auth, store.go).  The singleton is nil    *)
(* until InitStore has run: store.init tells whether it is set.            *)
(***************************************************************************)
NilErr == [nil |-> TRUE, msg |-> "", cause |-> ""]
Err(m) == [nil |-> FALSE, msg |-> m, cause |-> ""]
WrapErr(m, e) == [nil |-> FALSE, msg |-> m, cause |-> e.msg]

ErrNotInitialized == "credential store not initialized - run 'porteden auth login' first"
ErrWriteFile == "failed to write credentials file"
ErrNoKey == "no API key found for profile"

EmptyMap == [p \in {} |-> ""]
MapPut(f, k, v) == [x \in DOMAIN f \cup {k} |-> IF x = k THEN v ELSE f[x]]

ensureStore(st) == IF ~st.init THEN Err(ErrNotInitialized) ELSE NilErr

\* saveStore: writing the credentials file succeeds or fails.
saveStore(diskOK) == IF diskOK THEN NilErr ELSE Err(ErrWriteFile)

StoreAPIKey(st, apiKey, prof, diskOK) ==
    IF ~ensureStore(st).nil THEN [store |-> st, err |-> ensureStore(st)]
    ELSE LET p == IF prof = "" THEN "default" ELSE prof
         IN  [store |-> [st EXCEPT !.profiles = MapPut(@, p, apiKey)],
              err |-> saveStore(diskOK)]

GetActiveProfile(st) == IF ~st.init THEN "default" ELSE st.active

GetStoredAPIKey(st, prof) ==
    IF ~ensureStore(st).nil THEN [key |-> "", err |-> ensureStore(st)]
    ELSE LET p == IF prof = "" THEN GetActiveProfile(st) ELSE prof
         IN  IF p \notin DOMAIN st.profiles \/ st.profiles[p] = ""
             THEN [key |-> "", err |-> WrapErr(ErrNoKey, Err(p))]
             ELSE [key |-> st.profiles[p], err |-> NilErr]

ErrReadFile == "failed to read credentials file"

\* The credentials file: absent, or the JSON of a credentialStore.
NoFile == [exists |-> FALSE, active |-> "", profiles |-> EmptyMap]
FileOf(st) == [exists |-> TRUE, active |-> st.active, profiles |-> st.profiles]

\* The package variable store == nil.
NilStore == [init |-> FALSE, active |-> "default", profiles |-> EmptyMap]

MapDel(f, k) == [x \in DOMAIN f \ {k} |-> f[x]]

\* loadStore: a missing file gives a fresh store with active profile
\* "default"; a file that cannot be read or parsed is an error; an empty
\* active profile in the file becomes "default".
loadStore(file, readOK) ==
    IF ~file.exists
    THEN [store |-> [init |-> TRUE, active |-> "default", profiles |-> EmptyMap],
          err |-> NilErr]
    ELSE IF ~readOK THEN [store |-> NilStore, err |-> Err(ErrReadFile)]
    ELSE [store |-> [init |-> TRUE,
                     active |-> IF file.active = "" THEN "default" ELSE file.active,
                     profiles |-> file.profiles],
          err |-> NilErr]

InitStore_Reloads(st, file, readOK) == loadStore(file, readOK)

InitStore(st, file, readOK) ==
    IF st.init THEN [store |-> st, err |-> NilErr] ELSE loadStore(file, readOK)

\* The file after an operation that ends in saveStore: rewritten from the
\* store when the operation returned nil, left alone otherwise.
FileAfter(file, r) == IF r.err.nil THEN FileOf(r.store) ELSE file

GetAPIKey_StoredFirst(env, st, prof) ==
    IF GetStoredAPIKey(st, prof).err.nil THEN GetStoredAPIKey(st, prof)
    ELSE IF env # "" THEN [key |-> env, err |-> NilErr]
    ELSE GetStoredAPIKey(st, prof)

GetAPIKey(env, st, prof) ==
    IF env # "" THEN [key |-> env, err |-> NilErr]
    ELSE GetStoredAPIKey(st, prof)

DeleteAPIKey(st, prof, diskOK) ==
    IF ~ensureStore(st).nil THEN [store |-> st, err |-> ensureStore(st)]
    ELSE LET p == IF prof = "" THEN "default" ELSE prof
         IN  [store |-> [st EXCEPT !.profiles = MapDel(@, p)],
              err |-> saveStore(diskOK)]

SetActiveProfile(st, prof, diskOK) ==
    IF ~ensureStore(st).nil THEN [store |-> st, err |-> ensureStore(st)]
    ELSE [store |-> [st EXCEPT !.active = prof], err |-> saveStore(diskOK)]

\* The profile names in sort.Strings order.
SortedNames == <<"default", "work">>

ListProfiles(st) ==
    IF ~ensureStore(st).nil
    THEN [profiles |-> <<>>, active |-> "", err |-> ensureStore(st)]
    ELSE [profiles |-> SelectSeq(SortedNames, LAMBDA n : n \in DOMAIN st.profiles),
          active |-> st.active, err |-> NilErr]

\* The arguments the store operations are called with.
StoreProfiles == {"", "default", "work"}
StoredKeys == {"k1", "k2"}
EnvKeys == {"", "pe_env"}
InitFiles ==
    { NoFile,
      [exists |-> TRUE, active |-> "", profiles |-> MapPut(EmptyMap, "work", "k1")] }

\* What an operation returned: a string value, a list of names, an error.
Op(name, prof, val, names, err) ==
    [op |-> name, prof |-> prof, val |-> val, names |-> names, err |-> err]
NoOp == Op("none", "", "", <<>>, NilErr)

CliIdle ==
    /\ procStore = NilStore
    /\ credFile = NoFile
    /\ envKey = ""
    /\ lastOp = NoOp

StoreEntry ==
    /\ procStore = NilStore
    /\ credFile \in InitFiles
    /\ envKey \in EnvKeys
    /\ lastOp = NoOp

(***************************************************************************)
(* The operations of the credential store, called in any order and in any  *)
(* store state by one process.                                             *)
(***************************************************************************)
OpInitStore ==
    /\ \E readOK \in BOOLEAN :
          LET r == InitStore(procStore, credFile, readOK)
          IN  /\ procStore' = r.store
              /\ lastOp' = Op("InitStore", "", "", <<>>, r.err)
    /\ UNCHANGED <<credFile, envKey>>
    /\ UNCHANGED <<retryVars, loginVars, concVars, pageVars>>

OpStoreAPIKey ==
    /\ \E k \in StoredKeys, p \in StoreProfiles, diskOK \in BOOLEAN :
          LET r == StoreAPIKey(procStore, k, p, diskOK)
          IN  /\ procStore' = r.store
              /\ credFile' = FileAfter(credFile, r)
              /\ lastOp' = Op("StoreAPIKey", p, "", <<>>, r.err)
    /\ UNCHANGED envKey
    /\ UNCHANGED <<retryVars, loginVars, concVars, pageVars>>

OpGetAPIKey ==
    /\ \E p \in StoreProfiles :
          LET r == GetAPIKey(envKey, procStore, p)
          IN  lastOp' = Op("GetAPIKey", p, r.key, <<>>, r.err)
    /\ UNCHANGED <<procStore, credFile, envKey>>
    /\ UNCHANGED <<retryVars, loginVars, concVars, pageVars>>

OpGetStoredAPIKey ==
    /\ \E p \in StoreProfiles :
          LET r == GetStoredAPIKey(procStore, p)
          IN  lastOp' = Op("GetStoredAPIKey", p, r.key, <<>>, r.err)
    /\ UNCHANGED <<procStore, credFile, envKey>>
    /\ UNCHANGED <<retryVars, loginVars, concVars, pageVars>>

OpDeleteAPIKey ==
    /\ \E p \in StoreProfiles, diskOK \in BOOLEAN :
          LET r == DeleteAPIKey(procStore, p, diskOK)
          IN  /\ procStore' = r.store
              /\ credFile' = FileAfter(credFile, r)
              /\ lastOp' = Op("DeleteAPIKey", p, "", <<>>, r.err)
    /\ UNCHANGED envKey
    /\ UNCHANGED <<retryVars, loginVars, concVars, pageVars>>

\* GetActiveProfile has no error result.
OpGetActiveProfile ==
    /\ lastOp' = Op("GetActiveProfile", "", GetActiveProfile(procStore), <<>>, NilErr)
    /\ UNCHANGED <<procStore, credFile, envKey>>
    /\ UNCHANGED <<retryVars, loginVars, concVars, pageVars>>

OpSetActiveProfile ==
    /\ \E p \in StoreProfiles, diskOK \in BOOLEAN :
          LET r == SetActiveProfile(procStore, p, diskOK)
          IN  /\ procStore' = r.store
              /\ credFile' = FileAfter(credFile, r)
              /\ lastOp' = Op("SetActiveProfile", p, "", <<>>, r.err)
    /\ UNCHANGED envKey
    /\ UNCHANGED <<retryVars, loginVars, concVars, pageVars>>

OpListProfiles ==
    /\ LET r == ListProfiles(procStore)
       IN  lastOp' = Op("ListProfiles", "", r.active, r.profiles, r.err)
    /\ UNCHANGED <<procStore, credFile, envKey>>
    /\ UNCHANGED <<retryVars, loginVars, concVars, pageVars>>

\* The process ends: the next one starts with store == nil.
ProcessExit ==
    /\ procStore.init
    /\ procStore' = NilStore
    /\ lastOp' = Op("exit", "", "", <<>>, NilErr)
    /\ UNCHANGED <<credFile, envKey>>
    /\ UNCHANGED <<retryVars, loginVars, concVars, pageVars>>

NextStore ==
    \/ OpInitStore
    \/ OpStoreAPIKey
    \/ OpGetAPIKey
    \/ OpGetStoredAPIKey
    \/ OpDeleteAPIKey
    \/ OpGetActiveProfile
    \/ OpSetActiveProfile
    \/ OpListProfiles
    \/ ProcessExit

(***************************************************************************)
(* The browser login flow (package auth: Login, pollForCompletion).        *)
(***************************************************************************)
initialDelay == 10
pollInterval == 3
minTimeout == 90

\* The horizon of the model's clock, in seconds.
MaxClock == 96

\* How long a poll request can take, in seconds: it is answered at once, or
\* it takes longer than one poll interval.
PollDurations == {0, 4}

ErrConnect == "could not connect to PortEden. Please check your internet connection and try again"
ErrReadResponse == "could not read server response. Please try again"
ErrTooMany == "too many login attempts. Please wait a minute and try again"
ErrStartSession == "could not start login session. Please try again later"
ErrDecode == "failed to decode response"
ErrCancelled == "login cancelled by user"
ErrTimedOut == "login timed out"
ErrExpired404 == "login session expired. Please try again"
ErrNoApiKey == "no API key in response"
ErrExpired == "login session expired"
ErrAuthFailed == "authentication failed"
ErrInvalidSecret == "invalid poll secret - session may be compromised"
ErrStoreKey == "failed to store API key"

\* How the session-creation request can end; a 200 with a decodable body
\* carries expiresAt, given as the seconds from now until it.
ExpiresIns == {-5, 91}
Absent == [present |-> FALSE, val |-> ""]
Present(v) == [present |-> TRUE, val |-> v]

InitOutcome(k, st, e) == [kind |-> k, status |-> st, expiresIn |-> e]
InitOutcomes ==
    {InitOutcome("neterr", 0, 0), InitOutcome("readerr", 200, 0),
     InitOutcome("badjson", 200, 0)}
    \cup {InitOutcome("resp", st, 0) : st \in {429, 500}}
    \cup {InitOutcome("resp", 200, e) : e \in ExpiresIns}
NoInit == InitOutcome("none", 0, 0)

\* How one poll request can end: a transport error, a response whose body
\* cannot be read, a response with a non-200 status, a 200 whose body is
\* not the expected JSON, or a 200 with a PollResponse.
PollOutcome(k, st, state, key, e) ==
    [kind |-> k, status |-> st, state |-> state, apiKey |-> key, error |-> e]
PollOutcomes ==
    {PollOutcome("neterr", 0, "", Absent, Absent)}
    \cup {PollOutcome("readerr", st, "", Absent, Absent) : st \in {200, 404}}
    \cup {PollOutcome("resp", st, "", Absent, Absent) : st \in {400, 403, 404, 429, 500}}
    \cup {PollOutcome("badjson", 200, "", Absent, Absent)}
    \cup {PollOutcome("json", 200, state, Absent, Absent) :
             state \in {"pending", "expired", "invalid_secret", "unknown"}}
    \cup {PollOutcome("json", 200, "completed", key, Absent) :
             key \in {Absent, Present(""), Present("k1")}}
    \cup {PollOutcome("json", 200, "failed", Absent, e) :
             e \in {Absent, Present("denied"), Present(ErrInvalidSecret)}}
NoPoll == PollOutcome("none", 0, "", Absent, Absent)

NoResult == [done |-> FALSE, key |-> "", err |-> NilErr]
Return(k, e) == [done |-> TRUE, key |-> k, err |-> e]

\* The stores Login can find: InitStore not run, a fresh store, and a
\* store with another active profile and a key stored earlier.
StoreInits ==
    { [init |-> FALSE, active |-> "default", profiles |-> EmptyMap],
      [init |-> TRUE, active |-> "default", profiles |-> EmptyMap],
      [init |-> TRUE, active |-> "work", profiles |-> MapPut(EmptyMap, "default", "old")] }
ProfileArgs == {"", "work"}

\* timeout := time.Until(expiresAt); if timeout < 90s { timeout = 90s }
PollTimeout_NoFloor(expiresIn) == expiresIn

PollTimeout(expiresIn) == IF expiresIn < minTimeout THEN minTimeout ELSE expiresIn

\* The body of pollForCompletion's "case <-ticker.C" for one poll outcome:
\* NoResult stands for "continue", anything else is returned.
CompletedResult_KeepPolling(o) == NoResult

CompletedResult(o) ==
    IF o.apiKey.present THEN Return(o.apiKey.val, NilErr)
    ELSE Return("", Err(ErrNoApiKey))

\* A response whose status is not 200: 404 and 429 end the flow, every
\* other status is retried on the next tick.
StatusResult_404Continues(status) ==
    IF status = 429 THEN Return("", Err(ErrTooMany))
    ELSE NoResult

StatusResult_429Continues(status) ==
    IF status = 404 THEN Return("", Err(ErrExpired404))
    ELSE NoResult

StatusResult_5xxEnds(status) ==
    IF status = 404 THEN Return("", Err(ErrExpired404))
    ELSE IF status = 429 THEN Return("", Err(ErrTooMany))
    ELSE IF status >= 500 THEN Return("", Err(ErrAuthFailed))
    ELSE NoResult

StatusResult(status) ==
    IF status = 404 THEN Return("", Err(ErrExpired404))
    ELSE IF status = 429 THEN Return("", Err(ErrTooMany))
    ELSE NoResult

\* case "failed": the server's reason, or "authentication failed".
FailedResult_KeepPolling(o) == NoResult

FailedResult(o) ==
    Return("", Err(IF o.error.present THEN o.error.val ELSE ErrAuthFailed))

HandlePoll(o) ==
    IF o.kind = "neterr" THEN NoResult
    ELSE IF o.kind = "readerr" THEN NoResult
    ELSE IF o.status # 200 THEN StatusResult(o.status)
    ELSE IF o.kind = "badjson" THEN NoResult
    ELSE IF o.state = "completed" THEN CompletedResult(o)
    ELSE IF o.state = "expired" THEN Return("", Err(ErrExpired))
    ELSE IF o.state = "failed" THEN FailedResult(o)
    ELSE IF o.state = "invalid_secret" THEN Return("", Err(ErrInvalidSecret))
    ELSE NoResult

\* The message of the error Login returns when the session-creation request
\* does not give a decodable 200.
InitError_Generic(o) == ErrConnect

InitError(o) ==
    IF o.kind = "neterr" THEN ErrConnect
    ELSE IF o.kind = "readerr" THEN ErrReadResponse
    ELSE IF o.status = 429 THEN ErrTooMany
    ELSE IF o.status # 200 THEN ErrStartSession
    ELSE ErrDecode

\* Where Login goes after browser.OpenURL returned: its error is dropped
\* ("_ ="), so on to pollForCompletion in both cases.
AfterBrowser_FailAborts(b) == IF b = "failed" THEN "done" ELSE "delay"

AfterBrowser(b) == "delay"

\* Login, from the return of pollForCompletion on: give up on an error,
\* else store the key for the profile and return it.
LoginReturns_AlwaysStores(r, diskOK) ==
    LET p == IF profile = "" THEN "default" ELSE profile
        w == StoreAPIKey(store, r.key, p, diskOK)
    IN  /\ store' = w.store
        /\ loginResult' = IF ~r.err.nil THEN Return("", r.err)
                          ELSE IF w.err.nil THEN Return(r.key, NilErr)
                          ELSE Return("", WrapErr(ErrStoreKey, w.err))

LoginReturns(r, diskOK) ==
    IF ~r.err.nil
    THEN /\ loginResult' = Return("", r.err)
         /\ store' = store
    ELSE LET p == IF profile = "" THEN "default" ELSE profile
             w == StoreAPIKey(store, r.key, p, diskOK)
         IN  /\ store' = w.store
             /\ loginResult' = IF w.err.nil THEN Return(r.key, NilErr)
                               ELSE Return("", WrapErr(ErrStoreKey, w.err))

LoginIdle ==
    /\ profile = ""
    /\ interrupted = FALSE
    /\ lpc = "idle"
    /\ timeout = 0
    /\ clock = 0
    /\ nextTick = 0
    /\ tickBuf = FALSE
    /\ reqSent = 0
    /\ reqEnd = 0
    /\ nInit = 0
    /\ nPolls = 0
    /\ pendingOnly = TRUE
    /\ lastPoll = NoPoll
    /\ pollResult = NoResult
    /\ loginResult = NoResult
    /\ store = [init |-> FALSE, active |-> "default", profiles |-> EmptyMap]
    /\ progress = FALSE
    /\ urlShown = FALSE
    /\ browser = "none"
    /\ lastInit = NoInit

RetryIdle ==
    /\ body = [nil |-> TRUE, bytes |-> <<>>]
    /\ urlOK = TRUE
    /\ ctx = "active"
    /\ pc = "idle"
    /\ attempt = 0
    /\ backoff = initialBackoff
    /\ lastErr = NoErr
    /\ bodyReader = NoReader
    /\ nReq = 0
    /\ lastSent = <<>>
    /\ waits = <<>>
    /\ lastOutcome = NoOutcome
    /\ onlyTransient = TRUE
    /\ hdrSeen = FALSE
    /\ result = [resp |-> 0, err |-> NoErr]
    /\ clientResult = NoClientResult

LoginEntry ==
    /\ profile \in ProfileArgs
    /\ store \in StoreInits
    /\ interrupted = FALSE
    /\ lpc = "start"
    /\ timeout = 0
    /\ clock = 0
    /\ nextTick = 0
    /\ tickBuf = FALSE
    /\ reqSent = 0
    /\ reqEnd = 0
    /\ nInit = 0
    /\ nPolls = 0
    /\ pendingOnly = TRUE
    /\ lastPoll = NoPoll
    /\ pollResult = NoResult
    /\ loginResult = NoResult
    /\ progress \in BOOLEAN
    /\ urlShown = FALSE
    /\ browser = "none"
    /\ lastInit = NoInit

\* Login up to httpClient.Do(req): the session-creation request is sent,
\* unless the signal context is already done.
LoginStart ==
    /\ lpc = "start"
    /\ IF interrupted
       THEN /\ lpc' = "done"
            /\ loginResult' = Return("", Err(ErrConnect))
            /\ nInit' = nInit
       ELSE /\ lpc' = "initiating"
            /\ nInit' = nInit + 1
            /\ loginResult' = loginResult
    /\ UNCHANGED <<profile, interrupted, timeout, clock, nextTick, tickBuf, reqSent, reqEnd,
                   nPolls, pendingOnly, lastPoll, pollResult, store>>
    /\ UNCHANGED <<progress, urlShown, browser, lastInit>>
    /\ UNCHANGED <<retryVars, cliVars, concVars, pageVars>>

\* The session-creation request fails, or is answered by something other
\* than a decodable 200: Login returns the matching error.
InitiateFails ==
    /\ lpc = "initiating"
    /\ \E o \in InitOutcomes :
          /\ ~(o.kind = "resp" /\ o.status = 200)
          /\ lastInit' = o
          /\ loginResult' = Return("", Err(InitError(o)))
    /\ lpc' = "done"
    /\ UNCHANGED <<profile, interrupted, timeout, clock, nextTick, tickBuf, reqSent, reqEnd,
                   nInit, nPolls, pendingOnly, lastPoll, pollResult,
                   store>>
    /\ UNCHANGED <<progress, urlShown, browser>>
    /\ UNCHANGED <<retryVars, cliVars, concVars, pageVars>>

\* The session is created: hand the URL to the progress callback, try to
\* open the browser, and enter pollForCompletion up to its first select.
InitiateSucceeds ==
    /\ lpc = "initiating"
    /\ \E o \in InitOutcomes :
          /\ o.kind = "resp" /\ o.status = 200
          /\ lastInit' = o
          /\ timeout' = PollTimeout(o.expiresIn)
    /\ urlShown' = progress
    /\ browser' \in {"opened", "failed"}
    /\ progress' = progress
    /\ clock' = 0
    /\ lpc' = AfterBrowser(browser')
    /\ UNCHANGED <<profile, interrupted, nextTick, tickBuf, reqSent, reqEnd, nInit, nPolls,
                   pendingOnly, lastPoll, pollResult, loginResult, store>>
    /\ UNCHANGED <<retryVars, cliVars, concVars, pageVars>>

\* The channels of a select that are ready to be received from.
Ready_NoDelay(c) ==
    IF c = "ctx" THEN interrupted
    ELSE IF c = "timer" THEN clock >= timeout
    ELSE IF c = "delay" THEN TRUE
    ELSE tickBuf

Ready(c) ==
    IF c = "ctx" THEN interrupted
    ELSE IF c = "timer" THEN clock >= timeout
    ELSE IF c = "delay" THEN clock >= initialDelay
    ELSE tickBuf

\* The select of the initial delay: ctx.Done(), timer.C or initialDelay.C.
DelaySelect ==
    /\ lpc = "delay"
    /\ \E c \in {"ctx", "timer", "delay"} :
          /\ Ready(c)
          /\ IF c = "delay"
             THEN /\ lpc' = "loop"
                  /\ nextTick' = clock + pollInterval
                  /\ UNCHANGED <<pollResult, loginResult>>
             ELSE /\ lpc' = "done"
                  /\ pollResult' = Return("", Err(IF c = "ctx" THEN ErrCancelled ELSE ErrTimedOut))
                  /\ loginResult' = pollResult'
                  /\ nextTick' = nextTick
    /\ UNCHANGED <<profile, interrupted, timeout, clock, tickBuf, reqSent, reqEnd, nInit,
                   nPolls, pendingOnly, lastPoll, store>>
    /\ UNCHANGED <<progress, urlShown, browser, lastInit>>
    /\ UNCHANGED <<retryVars, cliVars, concVars, pageVars>>

\* The select of the poll loop takes ctx.Done() or timer.C: return the error.
LoopEnds ==
    /\ lpc = "loop"
    /\ \E c \in {"ctx", "timer"} :
          /\ Ready(c)
          /\ pollResult' = Return("", Err(IF c = "ctx" THEN ErrCancelled ELSE ErrTimedOut))
    /\ loginResult' = pollResult'
    /\ lpc' = "done"
    /\ UNCHANGED <<profile, interrupted, timeout, clock, nextTick, tickBuf, reqSent, reqEnd,
                   nInit, nPolls, pendingOnly, lastPoll, store>>
    /\ UNCHANGED <<progress, urlShown, browser, lastInit>>
    /\ UNCHANGED <<retryVars, cliVars, concVars, pageVars>>

\* The select of the poll loop takes ticker.C: httpClient.Get(pollURL).
PollSend ==
    /\ lpc = "loop"
    /\ Ready("tick")
    /\ tickBuf' = FALSE
    /\ nPolls' = nPolls + 1
    /\ \E d \in PollDurations :
          /\ clock + d <= MaxClock
          /\ reqSent' = clock
          /\ reqEnd' = clock + d
    /\ pendingOnly' = (pendingOnly /\ (nPolls = 0 \/ (lastPoll.kind = "json" /\ lastPoll.state = "pending")))
    /\ lastPoll' = NoPoll
    /\ lpc' = "polling"
    /\ UNCHANGED <<profile, interrupted, timeout, clock, nextTick, nInit, pollResult,
                   loginResult, store>>
    /\ UNCHANGED <<progress, urlShown, browser, lastInit>>
    /\ UNCHANGED <<retryVars, cliVars, concVars, pageVars>>

\* The poll request ends: continue with the next select, or return from
\* pollForCompletion and finish Login.
PollReturns ==
    /\ lpc = "polling"
    /\ \E o \in PollOutcomes, diskOK \in BOOLEAN :
          /\ clock = reqEnd
          /\ reqSent' = 0
          /\ reqEnd' = 0
          /\ lastPoll' = o
          /\ pollResult' = HandlePoll(o)
          /\ IF pollResult'.done
             THEN /\ lpc' = "done"
                  /\ LoginReturns(pollResult', diskOK)
             ELSE /\ lpc' = "loop"
                  /\ UNCHANGED <<loginResult, store>>
    /\ UNCHANGED <<profile, interrupted, timeout, clock, nextTick, tickBuf, nInit,
                   nPolls, pendingOnly>>
    /\ UNCHANGED <<progress, urlShown, browser, lastInit>>
    /\ UNCHANGED <<retryVars, cliVars, concVars, pageVars>>

\* One second passes.  A select with a ready channel does not wait, and a
\* request in flight ends at the time its duration gives.
Tick ==
    /\ clock < MaxClock
    /\ \/ lpc = "delay" /\ ~Ready("ctx") /\ ~Ready("timer") /\ ~Ready("delay")
       \/ lpc = "loop" /\ ~Ready("ctx") /\ ~Ready("timer") /\ ~Ready("tick")
       \/ lpc = "polling" /\ clock < reqEnd
    /\ clock' = clock + 1
    /\ IF lpc # "delay" /\ clock' = nextTick
       THEN /\ tickBuf' = TRUE
            /\ nextTick' = nextTick + pollInterval
       ELSE UNCHANGED <<tickBuf, nextTick>>
    /\ UNCHANGED <<profile, interrupted, lpc, timeout, reqSent, reqEnd, nInit, nPolls,
                   pendingOnly, lastPoll, pollResult, loginResult,
                   store>>
    /\ UNCHANGED <<progress, urlShown, browser, lastInit>>
    /\ UNCHANGED <<retryVars, cliVars, concVars, pageVars>>

\* The user presses Ctrl-C: the signal context is done.
Interrupt ==
    /\ lpc \notin {"idle", "done"}
    /\ ~interrupted
    /\ interrupted' = TRUE
    /\ UNCHANGED <<profile, lpc, timeout, clock, nextTick, tickBuf, reqSent, reqEnd, nInit,
                   nPolls, pendingOnly, lastPoll, pollResult,
                   loginResult, store>>
    /\ UNCHANGED <<progress, urlShown, browser, lastInit>>
    /\ UNCHANGED <<retryVars, cliVars, concVars, pageVars>>

NextLogin ==
    \/ LoginStart
    \/ InitiateFails
    \/ InitiateSucceeds
    \/ DelaySelect
    \/ LoopEnds
    \/ PollSend
    \/ PollReturns
    \/ Tick
    \/ Interrupt

\* No doWithRetry invocation of the concurrent model has started.
NoFrame == [attempt |-> 0, backoff |-> initialBackoff, lastErr |-> NoErr]
NoCall == [pc |-> "idle", hist |-> <<>>, waits |-> <<>>, result |-> [resp |-> 0, err |-> NoErr]]
Invocations == {1, 2}

ConcIdle ==
    /\ frames = [i \in Invocations |-> NoFrame]
    /\ calls = [i \in Invocations |-> NoCall]

(***************************************************************************)
(* Two goroutines call doWithRetry on the same Client.  The Client's       *)
(* fields (baseURL, apiKey, httpClient) are only read; attempt, backoff    *)
(* and lastErr are local variables of the call.                            *)
(***************************************************************************)
\* Where invocation i keeps attempt, backoff and lastErr: in its own frame.
Frame_Shared(i) == 1

Frame(i) == i

\* How an attempt of these invocations can end.
ConcOutcomes ==
    { NetOutcome("connection refused"), StatusOutcome(503, NoHeader),
      StatusOutcome(429, SecondsHeader(Int2(5))), StatusOutcome(200, NoHeader) }

\* The response is returned to the caller as it is.
Final(o) == o.kind = "status" /\ ~isRetryable(o.code)

\* The locals after an attempt that failed with outcome o.
FailedFrame(f, o) ==
    [attempt |-> f.attempt + 1,
     backoff |-> IF o.kind = "net" THEN DoubledBackoff(f.backoff)
                 ELSE BackoffAfterResponse(o.hdr, f.backoff),
     lastErr |-> RecordErr(f.lastErr, IF o.kind = "net" THEN NetErr(o.what)
                                      ELSE HttpErr(o.code))]

\* One doWithRetry call run on its own over the attempt outcomes h: its
\* locals, the waits it starts and what it returns.
RECURSIVE Replay(_, _)
Replay(h, c) ==
    IF h = <<>> THEN c
    ELSE IF Final(Head(h))
    THEN [c EXCEPT !.pc = "done", !.result = [resp |-> Head(h).code, err |-> NoErr]]
    ELSE LET f == FailedFrame(c.frame, Head(h))
         IN  IF LoopContinues(f.attempt)
             THEN Replay(Tail(h), [c EXCEPT !.frame = f, !.pc = "wait",
                                            !.waits = Append(@, f.backoff)])
             ELSE [c EXCEPT !.frame = f, !.pc = "done",
                            !.result = [resp |-> 0, err |-> RetriesErr(f.lastErr)]]

\* doWithRetry is entered: var lastErr error; backoff := initialBackoff;
\* attempt := 0.
CallStart ==
    /\ \E i \in Invocations :
          /\ calls[i].pc = "idle"
          /\ frames' = [frames EXCEPT ![Frame(i)] = NoFrame]
          /\ calls' = [calls EXCEPT ![i].pc = "send"]
    /\ UNCHANGED <<retryVars, loginVars, cliVars, pageVars>>

\* c.httpClient.Do(req) puts the request of the attempt on the wire.
CallSend ==
    /\ \E i \in Invocations :
          /\ calls[i].pc = "send"
          /\ calls' = [calls EXCEPT ![i].pc = "inflight"]
    /\ UNCHANGED frames
    /\ UNCHANGED <<retryVars, loginVars, cliVars, pageVars>>

\* Do returns: a final response is returned; after a network error or a
\* retryable status the locals are updated and the loop goes on to the next
\* backoff wait or ends with "request failed after 3 retries".
CallRecv ==
    /\ \E i \in Invocations, o \in ConcOutcomes :
          /\ calls[i].pc = "inflight"
          /\ IF Final(o)
             THEN /\ calls' = [calls EXCEPT ![i].pc = "done",
                                            ![i].hist = Append(@, o),
                                            ![i].result = [resp |-> o.code, err |-> NoErr]]
                  /\ UNCHANGED frames
             ELSE LET f == FailedFrame(frames[Frame(i)], o)
                  IN  /\ frames' = [frames EXCEPT ![Frame(i)] = f]
                      /\ calls' =
                            IF LoopContinues(f.attempt)
                            THEN [calls EXCEPT ![i].pc = "wait",
                                               ![i].hist = Append(@, o),
                                               ![i].waits = Append(@, f.backoff)]
                            ELSE [calls EXCEPT ![i].pc = "done",
                                               ![i].hist = Append(@, o),
                                               ![i].result =
                                                   [resp |-> 0, err |-> RetriesErr(f.lastErr)]]
    /\ UNCHANGED <<retryVars, loginVars, cliVars, pageVars>>

\* case <-time.After(backoff): the wait of the invocation is over.
CallWaitElapsed ==
    /\ \E i \in Invocations :
          /\ calls[i].pc = "wait"
          /\ calls' = [calls EXCEPT ![i].pc = "send"]
    /\ UNCHANGED frames
    /\ UNCHANGED <<retryVars, loginVars, cliVars, pageVars>>

NextConc ==
    \/ CallStart
    \/ CallSend
    \/ CallRecv
    \/ CallWaitElapsed

(***************************************************************************)
(* The auth commands of the CLI (package commands).  Every command is one  *)
(* process: it starts with store == nil, loads the credentials file, acts  *)
(* and exits.  While one command runs the credentials file is either       *)
(* writable or not.                                                        *)
(***************************************************************************)
ErrRequireStore == "this command requires credential store access but PE_API_KEY is set"
ErrStoreToken == "failed to store API key"
ErrSetActive == "failed to set active profile"
ErrLoginFailed == "login failed"
ErrNotAuthenticated == "not authenticated"
ErrRemoveLocal == "failed to remove local credentials"

\* getProfile: the --profile flag, else PE_PROFILE, else "default".
CmdProfiles == {"default", "work"}
\* The --token flag, empty when not given.
Tokens == {"", "k2"}
\* What auth.Login can return before it stores the key: a key, or an error.
LoginResults ==
    { Return("k1", NilErr), Return("", Err(ErrCancelled)),
      Return("", Err(ErrTimedOut)), Return("", Err(ErrAuthFailed)) }

\* requireStore: refuse when PE_API_KEY is set, else InitStore.
requireStore(env, file, readOK) ==
    IF env # "" THEN [store |-> NilStore, err |-> Err(ErrRequireStore)]
    ELSE InitStore(NilStore, file, readOK)

\* loginCmd.RunE after InitStore: delete the existing key of the profile.
DeleteExisting(st, file, prof, diskOK) ==
    LET g == GetStoredAPIKey(st, prof)
    IN  IF g.err.nil /\ g.key # ""
        THEN LET d == DeleteAPIKey(st, prof, diskOK)
             IN  [store |-> d.store, file |-> FileAfter(file, d)]
        ELSE [store |-> st, file |-> file]

\* loginCmd.RunE with --token: StoreAPIKey, then SetActiveProfile.
TokenLogin(st, file, token, prof, storeOK, activeOK) ==
    LET w == StoreAPIKey(st, token, prof, storeOK)
        a == SetActiveProfile(w.store, prof, activeOK)
    IN  IF ~w.err.nil
        THEN [file |-> FileAfter(file, w), err |-> WrapErr(ErrStoreToken, w.err)]
        ELSE IF ~a.err.nil
        THEN [file |-> FileAfter(FileAfter(file, w), a), err |-> WrapErr(ErrSetActive, a.err)]
        ELSE [file |-> FileAfter(FileAfter(file, w), a), err |-> NilErr]

\* loginCmd.RunE without --token: runLoginWizard calls auth.Login, which
\* stores the key it obtained under the profile; any error of Login is
\* reported as "login failed".
BrowserLogin(st, file, r, prof, storeOK) ==
    IF ~r.err.nil THEN [file |-> file, err |-> Err(ErrLoginFailed)]
    ELSE LET w == StoreAPIKey(st, r.key, prof, storeOK)
         IN  [file |-> FileAfter(file, w),
              err |-> IF w.err.nil THEN NilErr ELSE Err(ErrLoginFailed)]

LoginCmd ==
    /\ \E prof \in CmdProfiles, token \in Tokens, r \in LoginResults,
          readOK \in BOOLEAN, diskOK \in BOOLEAN :
          LET i == InitStore(NilStore, credFile, readOK)
              d == DeleteExisting(i.store, credFile, prof, diskOK)
              l == IF token # ""
                   THEN TokenLogin(d.store, d.file, token, prof, diskOK, diskOK)
                   ELSE BrowserLogin(d.store, d.file, r, prof, diskOK)
              via == IF token # "" THEN "token" ELSE "browser"
          IN  IF ~i.err.nil
              THEN /\ credFile' = credFile
                   /\ lastOp' = Op("login", prof, via, <<>>, i.err)
              ELSE /\ credFile' = l.file
                   /\ lastOp' = Op("login", prof, via, <<>>, l.err)
    /\ UNCHANGED <<procStore, envKey>>
    /\ UNCHANGED <<retryVars, loginVars, concVars, pageVars>>

\* client.Logout() in logoutCmd.RunE: when the revoke request fails a
\* warning is printed and the command goes on.
LogoutRevoke_Aborts(revokeOK) ==
    [warned |-> "", err |-> IF revokeOK THEN NilErr ELSE Err("failed to revoke API key on server")]

LogoutRevoke(revokeOK) ==
    [warned |-> IF revokeOK THEN "" ELSE "warning", err |-> NilErr]

\* logoutCmd.RunE: requireStore, GetAPIKey, client.Logout (a failure is only
\* a warning), DeleteAPIKey.
LogoutCmd ==
    /\ \E prof \in CmdProfiles, readOK \in BOOLEAN, deleteOK \in BOOLEAN,
          revokeOK \in BOOLEAN :
          LET i == requireStore(envKey, credFile, readOK)
              g == GetAPIKey(envKey, i.store, prof)
              v == LogoutRevoke(revokeOK)
              d == DeleteAPIKey(i.store, prof, deleteOK)
          IN  IF ~i.err.nil
              THEN /\ credFile' = credFile
                   /\ lastOp' = Op("logout", prof, "", <<>>, i.err)
              ELSE IF ~g.err.nil
              THEN /\ credFile' = credFile
                   /\ lastOp' = Op("logout", prof, "", <<>>, Err(ErrNotAuthenticated))
              ELSE IF ~v.err.nil
              THEN /\ credFile' = credFile
                   /\ lastOp' = Op("logout", prof, v.warned, <<>>, v.err)
              ELSE /\ credFile' = FileAfter(credFile, d)
                   /\ lastOp' = Op("logout", prof, v.warned, <<>>,
                                   IF d.err.nil THEN NilErr
                                   ELSE WrapErr(ErrRemoveLocal, d.err))
    /\ UNCHANGED <<procStore, envKey>>
    /\ UNCHANGED <<retryVars, loginVars, concVars, pageVars>>

\* useProfileCmd.RunE: requireStore, SetActiveProfile(args[0]).
UseProfileCmd ==
    /\ \E name \in CmdProfiles, readOK \in BOOLEAN, activeOK \in BOOLEAN :
          LET i == requireStore(envKey, credFile, readOK)
              a == SetActiveProfile(i.store, name, activeOK)
          IN  IF ~i.err.nil
              THEN /\ credFile' = credFile
                   /\ lastOp' = Op("use", name, "", <<>>, i.err)
              ELSE /\ credFile' = FileAfter(credFile, a)
                   /\ lastOp' = Op("use", name, "", <<>>, a.err)
    /\ UNCHANGED <<procStore, envKey>>
    /\ UNCHANGED <<retryVars, loginVars, concVars, pageVars>>

\* listProfilesCmd.RunE: requireStore, ListProfiles.
ListProfilesCmd ==
    /\ \E readOK \in BOOLEAN :
          LET i == requireStore(envKey, credFile, readOK)
              r == ListProfiles(i.store)
          IN  lastOp' = IF ~i.err.nil THEN Op("list", "", "", <<>>, i.err)
                        ELSE Op("list", "", r.active, r.profiles, r.err)
    /\ UNCHANGED <<procStore, credFile, envKey>>
    /\ UNCHANGED <<retryVars, loginVars, concVars, pageVars>>

\* statusCmd.RunE up to the key lookup; PersistentPreRun has run InitStore
\* unless PE_API_KEY is set, and has ended the process if that failed.
StatusCmd ==
    /\ \E prof \in CmdProfiles, readOK \in BOOLEAN :
          LET i == IF envKey # "" THEN [store |-> NilStore, err |-> NilErr]
                   ELSE InitStore(NilStore, credFile, readOK)
              g == GetAPIKey(envKey, i.store, prof)
          IN  lastOp' = IF ~i.err.nil THEN Op("status", prof, "", <<>>, i.err)
                        ELSE Op("status", prof, g.key, <<>>, g.err)
    /\ UNCHANGED <<procStore, credFile, envKey>>
    /\ UNCHANGED <<retryVars, loginVars, concVars, pageVars>>

\* The user sets or unsets PE_API_KEY between two commands.
SetEnv ==
    /\ \E e \in EnvKeys \ {envKey} : envKey' = e
    /\ lastOp' = Op("setenv", "", "", <<>>, NilErr)
    /\ UNCHANGED <<procStore, credFile>>
    /\ UNCHANGED <<retryVars, loginVars, concVars, pageVars>>

NextCli ==
    \/ LoginCmd
    \/ LogoutCmd
    \/ UseProfileCmd
    \/ ListProfilesCmd
    \/ StatusCmd
    \/ SetEnv

(***************************************************************************)
(* Auto-pagination of the API client: GetAllEmails follows next-page       *)
(* tokens for at most maxPages requests, GetAllEvents advances an offset   *)
(* by the count the server reports.  The server is free in what it         *)
(* answers to each request.                                                *)
(***************************************************************************)
maxPages == 100

\* Pages whose number of items the server chooses; later pages carry one item.
VariedPages == 2
\* GetEvents requests followed in one GetAllEvents call.
MaxEventRequests == 4

PageTokens == {"", "t1"}

\* The items of the n-th response, k of them.
PageItems(n, k) == [i \in 1..k |-> <<n, i>>]

\* What c.GetEmails returns to the n-th request: an error, or a page of emails.
EmailsPage(es, more, tok) ==
    [kind |-> "page", emails |-> es, hasMore |-> more, nextPageToken |-> tok]

GetEmails(n) ==
    {[kind |-> "err", emails |-> <<>>, hasMore |-> FALSE, nextPageToken |-> ""]} \cup
    {EmailsPage(PageItems(n, k), more, tok) :
        k \in (IF n <= VariedPages THEN {0, 1, 2} ELSE {1}),
        more \in BOOLEAN, tok \in PageTokens}

\* What c.GetEvents returns to the n-th request: an error, or a page of events
\* with or without meta; the count in meta is whatever the server says.
EventsPage(es, m, more, cnt) ==
    [kind |-> "page", events |-> es, meta |-> m, hasMore |-> more, count |-> cnt]

GetEvents(n) ==
    {[kind |-> "err", events |-> <<>>, meta |-> FALSE, hasMore |-> FALSE, count |-> 0]} \cup
    {EventsPage(PageItems(n, k), FALSE, FALSE, 0) : k \in {0, 1}} \cup
    {EventsPage(PageItems(n, k), TRUE, more, cnt) :
        k \in {0, 1}, more \in BOOLEAN, cnt \in {-1, 0, 1, 2}}

NoEmails == [nil |-> TRUE, emails |-> <<>>, totalCount |-> 0, hasMore |-> FALSE, err |-> NilErr]
NoEvents == [nil |-> TRUE, events |-> <<>>, count |-> 0, totalCount |-> 0, err |-> NilErr]

\* The *EmailsResponse GetAllEmails builds from what it collected.
EmailsResponse(es, more) ==
    [nil |-> FALSE, emails |-> es, totalCount |-> Len(es), hasMore |-> more, err |-> NilErr]

\* The *EventsResponse GetAllEvents builds: finalMeta counts the collected events.
EventsResponse(es) ==
    [nil |-> FALSE, events |-> es, count |-> Len(es), totalCount |-> Len(es), err |-> NilErr]

\* if !resp.HasMore || resp.NextPageToken == ""
EmailsStop_NoStop(resp) == ~resp.hasMore

EmailsStop(resp) == ~resp.hasMore \/ resp.nextPageToken = ""

\* if resp.Meta == nil || !resp.Meta.HasMore
EventsStop(resp) == ~resp.meta \/ ~resp.hasMore

PageIdle ==
    /\ emPc = "idle"
    /\ page = 0
    /\ pageToken = ""
    /\ allEmails = <<>>
    /\ emResponses = <<>>
    /\ emResult = NoEmails
    /\ evPc = "idle"
    /\ offset = 0
    /\ allEvents = <<>>
    /\ evRequests = <<>>
    /\ evResult = NoEvents

\* GetAllEmails is called with the caller's params.
GetAllEmails ==
    /\ emPc = "idle"
    /\ evPc = "idle"
    /\ emPc' = "loop"
    /\ page' = 0
    /\ allEmails' = <<>>
    /\ \E tok \in PageTokens : pageToken' = tok
    /\ UNCHANGED <<emResponses, emResult>>
    /\ UNCHANGED <<evPc, offset, allEvents, evRequests, evResult>>
    /\ UNCHANGED <<retryVars, loginVars, cliVars, concVars>>

\* One iteration of the loop of GetAllEmails: request, append, stop or go on.
GetAllEmailsPage ==
    /\ emPc = "loop"
    /\ page < maxPages
    /\ \E resp \in GetEmails(page + 1) :
          /\ emResponses' = Append(emResponses, resp)
          /\ IF resp.kind = "err"
             THEN /\ emPc' = "returned"
                  /\ emResult' = [NoEmails EXCEPT !.err = Err("GetEmails")]
                  /\ UNCHANGED <<page, pageToken, allEmails>>
             ELSE IF EmailsStop(resp)
             THEN /\ emPc' = "returned"
                  /\ allEmails' = allEmails \o resp.emails
                  /\ emResult' = EmailsResponse(allEmails', FALSE)
                  /\ UNCHANGED <<page, pageToken>>
             ELSE /\ allEmails' = allEmails \o resp.emails
                  /\ pageToken' = resp.nextPageToken
                  /\ page' = page + 1
                  /\ UNCHANGED <<emPc, emResult>>
    /\ UNCHANGED <<evPc, offset, allEvents, evRequests, evResult>>
    /\ UNCHANGED <<retryVars, loginVars, cliVars, concVars>>

\* The loop of GetAllEmails ends at the page limit.
GetAllEmailsPageLimit ==
    /\ emPc = "loop"
    /\ ~(page < maxPages)
    /\ emPc' = "returned"
    /\ emResult' = EmailsResponse(allEmails, TRUE)
    /\ UNCHANGED <<page, pageToken, allEmails, emResponses>>
    /\ UNCHANGED <<evPc, offset, allEvents, evRequests, evResult>>
    /\ UNCHANGED <<retryVars, loginVars, cliVars, concVars>>

\* GetAllEvents is called: offset := 0.
GetAllEvents ==
    /\ emPc = "idle"
    /\ evPc = "idle"
    /\ evPc' = "loop"
    /\ offset' = 0
    /\ allEvents' = <<>>
    /\ UNCHANGED <<evRequests, evResult>>
    /\ UNCHANGED <<emPc, page, pageToken, allEmails, emResponses, emResult>>
    /\ UNCHANGED <<retryVars, loginVars, cliVars, concVars>>

\* One iteration of the loop of GetAllEvents: request at params.Offset =
\* offset, append, stop or advance the offset by resp.Meta.Count.
GetAllEventsPage ==
    /\ evPc = "loop"
    /\ Len(evRequests) < MaxEventRequests
    /\ \E resp \in GetEvents(Len(evRequests) + 1) :
          /\ evRequests' = Append(evRequests, [offset |-> offset, resp |-> resp])
          /\ IF resp.kind = "err"
             THEN /\ evPc' = "returned"
                  /\ evResult' = [NoEvents EXCEPT !.err = Err("GetEvents")]
                  /\ UNCHANGED <<offset, allEvents>>
             ELSE IF EventsStop(resp)
             THEN /\ evPc' = "returned"
                  /\ allEvents' = allEvents \o resp.events
                  /\ evResult' = EventsResponse(allEvents')
                  /\ UNCHANGED offset
             ELSE /\ allEvents' = allEvents \o resp.events
                  /\ offset' = offset + resp.count
                  /\ UNCHANGED <<evPc, evResult>>
    /\ UNCHANGED <<emPc, page, pageToken, allEmails, emResponses, emResult>>
    /\ UNCHANGED <<retryVars, loginVars, cliVars, concVars>>

NextPage ==
    \/ GetAllEmails
    \/ GetAllEmailsPage
    \/ GetAllEmailsPageLimit
    \/ GetAllEvents
    \/ GetAllEventsPage

Init == InitRetry /\ LoginIdle /\ CliIdle /\ ConcIdle /\ PageIdle

InitLogin == LoginEntry /\ RetryIdle /\ CliIdle /\ ConcIdle /\ PageIdle

InitStoreOps == StoreEntry /\ RetryIdle /\ LoginIdle /\ ConcIdle /\ PageIdle

InitCli == StoreEntry /\ ConcIdle /\ LoginIdle /\ RetryIdle /\ PageIdle

InitConc == ConcIdle /\ CliIdle /\ LoginIdle /\ RetryIdle /\ PageIdle

Spec == Init /\ [][NextRetry]_vars

LoginSpec == InitLogin /\ [][NextLogin]_vars

StoreSpec == InitStoreOps /\ [][NextStore]_vars

CliSpec == InitCli /\ [][NextCli]_vars

ConcSpec == InitConc /\ [][NextConc]_vars

InitPage == PageIdle /\ RetryIdle /\ LoginIdle /\ CliIdle /\ ConcIdle

PageSpec == InitPage /\ [][NextPage]_vars

(***************************************************************************)
(* Properties of the retrying executor.                                    *)
(***************************************************************************)

\* C1: every HTTP request of one doWithRetry call, the first and every
\* retry, carries exactly the bytes of the payload passed in.
C1_SameBodyEveryAttempt == nReq > 0 => lastSent = body.bytes

C1_Witness ==
    /\ nReq = 3
    /\ pc = "inflight"
    /\ Len(body.bytes) = 2
    /\ lastOutcome.kind = "net"
    /\ lastSent = body.bytes

\* C2 as stated: a call never issues more than maxRetries + 1 requests, and
\* a call all of whose attempts ended in a retryable status has made exactly
\* maxRetries + 1 requests and returns the "failed after N retries" error.
C2_Original ==
    /\ nReq <= maxRetries + 1
    /\ (pc = "done" /\ nReq >= 1 /\ onlyTransient)
          => /\ nReq = maxRetries + 1
             /\ result.err.kind = "retries"

\* C2 amended: the same, for a call that is not ended by its context
\* during a backoff wait.
C2_Amended ==
    /\ nReq <= maxRetries + 1
    /\ (pc = "done" /\ nReq >= 1 /\ onlyTransient /\ result.err.kind # "ctx")
          => /\ nReq = maxRetries + 1
             /\ Len(waits) = maxRetries
             /\ result.resp = 0
             /\ result.err.kind = "retries"

C2_Witness ==
    /\ pc = "done"
    /\ onlyTransient
    /\ nReq = maxRetries + 1
    /\ result.err.kind = "retries"

\* C3: a response whose status is not 429, 500, 502, 503 or 504 ends the
\* call at once, on whatever attempt: that response is returned with a nil
\* error, and no wait and no request follows it.
C3_FinalResponseReturned ==
    (lastOutcome.kind = "status" /\ lastOutcome.code \notin {429, 500, 502, 503, 504})
       => /\ pc = "done"
          /\ result = [resp |-> lastOutcome.code, err |-> NoErr]
          /\ nReq = attempt + 1
          /\ Len(waits) = attempt

C3_Witness ==
    /\ pc = "done"
    /\ attempt = 2
    /\ result = [resp |-> 404, err |-> NoErr]

\* The duration a Retry-After header states, as a mathematical integer of
\* nanoseconds (no 64-bit wrap-around).
StatedDuration(h) ==
    IF h.kind = "seconds" THEN <<h.seconds[1], h.seconds[2], 0>>
    ELSE IF h.kind = "date" THEN h.until
    ELSE Zero

\* C4: after a retryable response whose Retry-After header states a
\* positive duration d, the wait before the next attempt is min(d, maxBackoff).
C4_RetryAfterWait ==
    (/\ pc = "wait"
     /\ lastOutcome.kind = "status"
     /\ DLess(Zero, StatedDuration(lastOutcome.hdr)))
       => waits[Len(waits)] = DMin(StatedDuration(lastOutcome.hdr), maxBackoff)

\* C5 as stated: with no Retry-After header on any response, the first wait
\* is initialBackoff, each later wait is twice the one before, and no wait
\* exceeds maxBackoff.
C5_Original ==
    ~hdrSeen =>
        \A i \in 1..Len(waits) :
            /\ waits[i] = (IF i = 1 THEN initialBackoff ELSE DAdd(waits[i-1], waits[i-1]))
            /\ ~DLess(maxBackoff, waits[i])

\* C5 amended: with no Retry-After header on any response, the first wait
\* is twice initialBackoff (the backoff is doubled before it is first used),
\* each later wait is twice the one before, and no wait exceeds maxBackoff.
C5_Amended ==
    ~hdrSeen =>
        \A i \in 1..Len(waits) :
            /\ waits[i] = (IF i = 1 THEN DAdd(initialBackoff, initialBackoff)
                           ELSE DAdd(waits[i-1], waits[i-1]))
            /\ ~DLess(maxBackoff, waits[i])

C5_Witness ==
    /\ ~hdrSeen
    /\ Len(waits) = maxRetries
    /\ waits[maxRetries] = Secs(8)

\* C6: once the context is cancelled or past its deadline during a backoff
\* wait, the next step of the call is to return the context's error, and no
\* request is issued.
C6_CancelDuringWait ==
    [][(pc = "wait" /\ ctx # "active")
          => /\ pc' = "done"
             /\ result' = [resp |-> 0, err |-> CtxErr(ctx)]
             /\ nReq' = nReq]_vars

C6_Witness ==
    /\ pc = "done"
    /\ result.err = CtxErr("canceled")
    /\ nReq = 2
    /\ Len(waits) = 2

\* The failure the most recent attempt ended in.
LastFailure ==
    IF lastOutcome.kind = "status" THEN HttpErr(lastOutcome.code)
    ELSE IF lastOutcome.kind = "net" THEN NetErr(lastOutcome.what)
    ELSE NoErr

\* C7: the error returned when the attempt budget is exhausted wraps the
\* failure of the last attempt, and no call returns a nil response together
\* with a nil error.
C7_WrapsLastFailure ==
    pc = "done" =>
        /\ ~(result.resp = 0 /\ result.err = NoErr)
        /\ result.err.kind = "retries" =>
              /\ attempt = maxRetries
              /\ LastFailure # NoErr
              /\ result.err.cause = LastFailure

C7_Witness ==
    /\ pc = "done"
    /\ hdrSeen
    /\ result.err = RetriesErr(NetErr("no such host"))

\* C8: a transport failure on an attempt that is not the last one is not
\* returned: it becomes lastErr, the backoff becomes min(2*backoff,
\* maxBackoff), and the loop goes on to the next attempt's backoff wait; no
\* call ever returns a bare transport error.
C8_NetErrRetried ==
    /\ [](pc = "done" => result.err.kind # "net")
    /\ [][(/\ pc \in {"send", "inflight"}
           /\ pc' \notin {"send", "inflight"}
           /\ urlOK
           /\ lastOutcome'.kind = "net"
           /\ attempt < maxRetries)
             => /\ pc' = "wait"
                /\ attempt' = attempt + 1
                /\ lastErr' = NetErr(lastOutcome'.what)
                /\ backoff' = DMin(DAdd(backoff, backoff), maxBackoff)
                /\ waits' = Append(waits, backoff')
                /\ result' = result]_vars

C8_Witness ==
    /\ pc = "inflight"
    /\ attempt = 2
    /\ lastOutcome.kind = "net"
    /\ lastErr = NetErr(lastOutcome.what)
    /\ backoff = maxBackoff

(***************************************************************************)
(* Properties of the browser login flow.                                   *)
(***************************************************************************)

\* C9: when every poll before it was answered 200 with status pending and a
\* poll is answered 200 with status completed and apiKey k, the poll loop
\* ends there and returns k with no error: after n pending answers that is
\* the (n+1)-th poll request, and none follows it.  Login then returns k,
\* or the error of storing it.
C9_PendingThenCompleted ==
    (/\ pendingOnly
     /\ lastPoll.kind = "json"
     /\ lastPoll.state = "completed"
     /\ lastPoll.apiKey.present)
       => /\ lpc = "done"
          /\ pollResult = Return(lastPoll.apiKey.val, NilErr)
          /\ loginResult.done
          /\ loginResult.err.nil => loginResult.key = lastPoll.apiKey.val
          /\ ~loginResult.err.nil => loginResult.err.msg = ErrStoreKey

C9_Witness ==
    /\ pendingOnly
    /\ nPolls = 3
    /\ lastPoll.state = "completed"
    /\ lastPoll.apiKey = Present("k1")
    /\ loginResult = Return("k1", NilErr)

\* C10: when Login returns a key with a nil error, a lookup of the profile
\* given to Login ("default" for the empty profile) returns that key.
C10_KeyPersisted ==
    (loginResult.done /\ loginResult.err.nil)
       => GetStoredAPIKey(store, IF profile = "" THEN "default" ELSE profile)
             = [key |-> loginResult.key, err |-> NilErr]

\* C11: after a successful Login the entry of the store's active profile is
\* the key that Login returned.
C11_StoredUnderActive ==
    (loginResult.done /\ loginResult.err.nil)
       => /\ store.active \in DOMAIN store.profiles
          /\ store.profiles[store.active] = loginResult.key

\* C12: a poll answered with status 404 ends the flow at that step, at any
\* time before the timeout: Login returns the "session expired" error, no
\* poll follows and the store is not written.
C12_NotFoundEnds ==
    /\ []((lastPoll.kind = "resp" /\ lastPoll.status = 404)
            => /\ lpc = "done"
               /\ pollResult = Return("", Err(ErrExpired404))
               /\ loginResult = Return("", Err(ErrExpired404)))
    /\ [][(lastPoll'.kind = "resp" /\ lastPoll'.status = 404)
            => /\ nPolls' = nPolls
               /\ store' = store]_vars

C12_Witness ==
    /\ lastPoll.kind = "resp"
    /\ lastPoll.status = 404
    /\ nPolls = 2
    /\ clock < 20
    /\ timeout = 91
    /\ loginResult = Return("", Err(ErrExpired404))

\* C13: a poll answered with status 429 ends the flow with the rate-limit
\* error, which is not the generic failure error; no wait and no poll
\* follows it.
C13_RateLimitEnds ==
    /\ ErrTooMany \notin {ErrAuthFailed, ErrStartSession, ErrConnect, ErrExpired404}
    /\ (lastPoll.kind = "resp" /\ lastPoll.status = 429)
          => /\ lpc = "done"
             /\ pollResult = Return("", Err(ErrTooMany))
             /\ loginResult = Return("", Err(ErrTooMany))

C13_Witness ==
    /\ lastPoll.kind = "resp"
    /\ lastPoll.status = 429
    /\ nPolls = 3
    /\ loginResult = Return("", Err(ErrTooMany))

\* C14: once the overall timeout has fired, no poll request is issued any
\* more, also when a poll tick is ready at the same moment; the flow ends
\* with the "timed out" error.
C14_NoPollAfterTimeout ==
    [][(lpc \in {"loop", "polling"} /\ clock >= timeout) => nPolls' = nPolls]_vars

\* C15: once the interrupt has fired during the initial delay or the poll
\* loop, no poll request is issued any more, also when a poll tick is ready
\* at the same moment.
C15_NoCallAfterInterrupt ==
    [][(lpc \in {"delay", "loop", "polling"} /\ interrupted) => nPolls' = nPolls]_vars

\* C16: the error Login returns for a poll answered with status
\* invalid_secret differs from the error it returns for a poll answered with
\* status failed, whatever reason the server gives.
C16_InvalidSecretDistinct ==
    (lastPoll.kind = "json" /\ lastPoll.state = "failed")
       => loginResult # Return("", Err(ErrInvalidSecret))

\* The poll outcomes C17 lists: a network or body-read error, a status of
\* 500 or more, a 400, a 200 with an unparseable body, a 200 with pending.
PendingLike(o) ==
    \/ o.kind \in {"neterr", "readerr", "badjson"}
    \/ o.kind = "resp" /\ (o.status >= 500 \/ o.status = 400)
    \/ o.kind = "json" /\ o.state = "pending"

\* C17: a pending-like poll outcome neither ends the flow nor yields a key:
\* the flow is back in the loop's select with nothing returned and nothing
\* stored, and after it only the timeout or the interrupt ends the flow
\* unless a further poll is made.
C17_PendingLikeContinues ==
    /\ [](PendingLike(lastPoll)
            => \/ /\ lpc = "loop"
                  /\ ~pollResult.done
                  /\ ~loginResult.done
               \/ /\ lpc = "done"
                  /\ pollResult \in {Return("", Err(ErrCancelled)), Return("", Err(ErrTimedOut))}
                  /\ loginResult = pollResult)
    /\ [][PendingLike(lastPoll') => store' = store]_vars

C17_Witness ==
    /\ lpc = "loop"
    /\ nPolls = 3
    /\ ~pendingOnly
    /\ lastPoll.kind = "resp"
    /\ lastPoll.status = 500
    /\ ~loginResult.done

\* The poll outcomes C18 lists as terminal.
Terminal(o) ==
    \/ o.kind = "json" /\ o.state \in {"completed", "expired", "failed", "invalid_secret"}
    \/ o.kind = "resp" /\ o.status \in {404, 429}

\* C18: after a terminal poll outcome the flow is over and no poll request
\* is issued any more; expired, failed and invalid_secret give an error and
\* no key.
C18_NoPollPastTerminal ==
    /\ [](Terminal(lastPoll)
            => /\ lpc = "done"
               /\ pollResult.done
               /\ loginResult.done
               /\ lastPoll.state \in {"expired", "failed", "invalid_secret"}
                     => /\ ~loginResult.err.nil
                        /\ loginResult.key = "")
    /\ [][pollResult.done => nPolls' = nPolls]_vars

C18_Witness ==
    /\ lastPoll.state = "failed"
    /\ nPolls = 2
    /\ loginResult = Return("", Err("denied"))

\* The session-creation request failed in the transport or was answered
\* with a status other than 200.
InitFailed(o) == o.kind = "neterr" \/ (o.kind = "resp" /\ o.status # 200)

\* C19: the session-creation request is sent at most once; when it fails in
\* the transport, with a 429 or with another non-200 status, Login is over
\* with the message of that failure mode (the three differ), and the browser
\* was not opened, no URL was shown, no poll was sent and the store was not
\* written.
C19_InitiationNotRetried ==
    /\ [](nInit <= 1)
    /\ [](Cardinality({ErrConnect, ErrTooMany, ErrStartSession}) = 3)
    /\ [](InitFailed(lastInit)
            => /\ lpc = "done"
               /\ nInit = 1
               /\ loginResult =
                     Return("", Err(IF lastInit.kind = "neterr" THEN ErrConnect
                                    ELSE IF lastInit.status = 429 THEN ErrTooMany
                                    ELSE ErrStartSession))
               /\ browser = "none"
               /\ ~urlShown
               /\ nPolls = 0)
    /\ [][InitFailed(lastInit') => store' = store]_vars

C19_Witness ==
    /\ lastInit = InitOutcome("resp", 429, 0)
    /\ loginResult = Return("", Err(ErrTooMany))
    /\ nInit = 1

\* C20: whatever browser.OpenURL returns, Login goes on to the initial
\* delay with nothing returned, and the URL was handed to OnBrowserOpen when
\* the caller gave one; nothing else depends on the opener's result.
C20_BrowserFailureNotFatal ==
    /\ [](browser # "none" => (urlShown = progress /\ lastInit.status = 200))
    /\ [][browser' # browser
            => /\ lpc' = "delay"
               /\ urlShown' = progress
               /\ clock' = 0
               /\ nPolls' = 0
               /\ UNCHANGED <<pollResult, loginResult, store, interrupted>>]_vars

C20_Witness ==
    /\ browser = "failed"
    /\ urlShown
    /\ nPolls = 2
    /\ loginResult = Return("k1", NilErr)

(***************************************************************************)
(* Further properties of the retrying executor.                            *)
(***************************************************************************)

\* C29: every backoff wait of a call is longer than zero and at most
\* maxBackoff, whatever mix of network errors, retryable statuses and
\* Retry-After headers the attempts met.
C29_WaitsBounded ==
    \A i \in 1..Len(waits) :
        /\ DLess(Zero, waits[i])
        /\ ~DLess(maxBackoff, waits[i])

C29_Witness ==
    /\ pc = "wait"
    /\ Len(waits) = 3
    /\ lastOutcome = StatusOutcome(503, SecondsHeader(Int2(100)))
    /\ waits[3] = maxBackoff
    /\ waits[2] = Secs(5)

\* A Retry-After header that states no positive duration: zero, negative,
\* a date that is not in the future, or text that cannot be parsed.
NoPositiveDuration(h) ==
    \/ h.kind = "garbage"
    \/ h.kind = "seconds" /\ ~DLess(Zero, <<h.seconds[1], h.seconds[2], 0>>)
    \/ h.kind = "date" /\ ~DLess(Zero, h.until)

\* C30: after a retryable response whose Retry-After header states no
\* positive duration the next wait is min(2 * backoff, maxBackoff), as it is
\* without the header, and is longer than zero.
C30_BadHeaderAsAbsent ==
    [][(/\ pc = "inflight"
        /\ pc' = "wait"
        /\ lastOutcome'.kind = "status"
        /\ NoPositiveDuration(lastOutcome'.hdr))
          => /\ backoff' = DMin(DAdd(backoff, backoff), maxBackoff)
             /\ backoff' = BackoffAfterResponse(NoHeader, backoff)
             /\ waits' = Append(waits, backoff')
             /\ DLess(Zero, backoff')]_vars

C30_Witness ==
    /\ pc = "wait"
    /\ Len(waits) = 2
    /\ lastOutcome = StatusOutcome(429, SecondsHeader(Int2(-5)))
    /\ waits = <<Secs(2), Secs(4)>>

C27_Original ==
    [][(~loginResult.done /\ loginResult' = Return("", Err(ErrTimedOut)))
          => /\ timeout \in {minTimeout, lastInit.expiresIn}
             /\ timeout >= minTimeout /\ timeout >= lastInit.expiresIn
             /\ clock = timeout]_vars

\* C27 amended: the login timeout is max(time until expiry, 90 s) counted
\* from the start of polling; before that time the flow only ends by a
\* cancellation or a terminal poll, and "timed out" is returned at a select
\* reached at or after that time, never before it.
C27_Amended ==
    /\ [](lpc \in {"delay", "loop", "polling"}
            => /\ timeout \in {minTimeout, lastInit.expiresIn}
               /\ timeout >= minTimeout /\ timeout >= lastInit.expiresIn)
    /\ [][(~loginResult.done /\ loginResult' = Return("", Err(ErrTimedOut)))
            => /\ clock >= timeout
               /\ lpc \in {"delay", "loop"}]_vars
    /\ [][(lpc \in {"delay", "loop"} /\ lpc' = "done" /\ clock < timeout)
            => /\ interrupted
               /\ loginResult' = Return("", Err(ErrCancelled))]_vars

C27_Witness ==
    /\ lastInit.expiresIn = -5
    /\ timeout = minTimeout
    /\ loginResult = Return("", Err(ErrTimedOut))
    /\ nPolls = 26
    /\ clock = minTimeout

\* C28: no poll request is issued before the 10 s initial delay has elapsed,
\* and a flow that ends during the delay ends with the cancelled or timed-out
\* error, no poll sent and nothing stored.
C28_NoPollBeforeDelay ==
    /\ [](nPolls > 0 => clock >= initialDelay)
    /\ [][lpc = "delay"
            => /\ nPolls' = 0
               /\ lpc' = "done" =>
                    /\ clock < initialDelay \/ interrupted \/ clock >= timeout
                    /\ loginResult' \in {Return("", Err(ErrCancelled)),
                                         Return("", Err(ErrTimedOut))}
                    /\ store' = store]_vars

C28_Witness ==
    /\ lpc = "done"
    /\ lastInit.kind = "resp" /\ lastInit.status = 200
    /\ clock = 5
    /\ nPolls = 0
    /\ loginResult = Return("", Err(ErrCancelled))

\* C26 as stated: a cancellation that fires while a request of doWithRetry
\* is in flight does not abort it: the call ends with a real outcome, a
\* response or a network failure, never with the context's error.
C26_Original ==
    [][(pc = "inflight" /\ ctx # "active" /\ pc' # "inflight")
          => lastOutcome' # NetOutcome(ctx)]_vars

\* C26 amended: the requests of doWithRetry carry the context, so a call in
\* flight when the context ends returns either its real outcome or the
\* context's error; that error is handled as a network failure (recorded,
\* backoff doubled, next wait or "failed after 3 retries"), and the wait that
\* follows returns ctx.Err().  Do never returns a context error while the
\* context is live.
C26_Amended ==
    /\ [][(pc = "inflight" /\ pc' # "inflight" /\ lastOutcome'.kind = "net"
              /\ lastOutcome'.what \notin NetErrs)
            => /\ ctx # "active"
               /\ lastOutcome' = NetOutcome(ctx)
               /\ lastErr' = NetErr(ctx)
               /\ backoff' = DMin(DAdd(backoff, backoff), maxBackoff)
               /\ nReq' = nReq
               /\ IF attempt < maxRetries
                  THEN pc' = "wait" /\ attempt' = attempt + 1
                  ELSE pc' = "done" /\ result'.err = RetriesErr(NetErr(ctx))]_vars
    /\ [][(pc = "wait" /\ ctx # "active" /\ pc' # "wait")
            => /\ pc' = "done"
               /\ result' = [resp |-> 0, err |-> CtxErr(ctx)]
               /\ nReq' = nReq]_vars

C26_Witness ==
    /\ pc = "done"
    /\ nReq = 2
    /\ ctx = "canceled"
    /\ lastOutcome = NetOutcome("canceled")
    /\ lastErr = NetErr("canceled")
    /\ result = [resp |-> 0, err |-> CtxErr("canceled")]

\* C21: every store operation called before the store is initialized fails
\* with the "not initialized" error, returns no value and changes nothing.
C21_UninitializedFails ==
    [][(~procStore.init
          /\ lastOp'.op \in {"StoreAPIKey", "GetStoredAPIKey", "DeleteAPIKey",
                             "GetActiveProfile", "SetActiveProfile", "ListProfiles"})
          => /\ lastOp'.err = Err(ErrNotInitialized)
             /\ lastOp'.val = ""
             /\ lastOp'.names = <<>>
             /\ procStore' = procStore
             /\ credFile' = credFile]_vars

\* C23: with PE_API_KEY non-empty GetAPIKey returns its value and no error,
\* whatever the profile argument and the store; with PE_API_KEY empty it
\* returns what the lookup in the store returns.
C23_EnvKeyWins ==
    [][lastOp'.op = "GetAPIKey"
          => IF envKey # ""
             THEN lastOp'.val = envKey /\ lastOp'.err = NilErr
             ELSE [key |-> lastOp'.val, err |-> lastOp'.err]
                     = GetStoredAPIKey(procStore, lastOp'.prof)]_vars

C23_Witness ==
    /\ envKey = "pe_env"
    /\ procStore.init
    /\ "work" \in DOMAIN procStore.profiles
    /\ lastOp = Op("GetAPIKey", "work", "pe_env", <<>>, NilErr)

\* The key the credentials file holds for a profile, "" when it holds none.
StoredCredential(file, p) ==
    IF file.exists /\ p \in DOMAIN file.profiles THEN file.profiles[p] ELSE ""

\* C22: over any sequence of auth commands the stored key of a profile is
\* created or overwritten only by a successful login or a direct-token set
\* for that profile, and removed only by a logout of that profile; a failed
\* browser login leaves it as it was.
C22_CredentialLifecycle ==
    [][\A p \in CmdProfiles :
          StoredCredential(credFile', p) # StoredCredential(credFile, p)
            => IF StoredCredential(credFile', p) # ""
               THEN /\ lastOp'.op = "login" /\ lastOp'.prof = p
                    /\ lastOp'.val = "token" \/ lastOp'.err.nil
               ELSE lastOp'.op = "logout" /\ lastOp'.prof = p]_vars

\* C25: under any interleaving of two doWithRetry invocations on one Client,
\* the attempt counter, backoff, last error, waits and result of each
\* invocation are those of the same call run alone on its own attempt
\* outcomes.
C25_Independent ==
    \A i \in Invocations :
        calls[i].pc # "idle"
          => LET alone == Replay(calls[i].hist,
                                 [frame |-> NoFrame, pc |-> "send", waits |-> <<>>,
                                  result |-> [resp |-> 0, err |-> NoErr]])
             IN  /\ frames[i] = alone.frame
                 /\ calls[i].waits = alone.waits
                 /\ calls[i].result = alone.result
                 /\ (calls[i].pc = "done") = (alone.pc = "done")

C25_Witness ==
    /\ calls[1].pc = "wait"
    /\ calls[1].waits = <<Secs(2), Secs(4)>>
    /\ calls[2].pc = "inflight"
    /\ calls[2].waits = <<Secs(5)>>
    /\ frames[1].backoff = Secs(4)
    /\ frames[2].backoff = Secs(5)

\* C31: Login writes the credential store only when a poll was answered
\* "completed" with a key; every return with an error of the initiation or
\* of the poll loop leaves the store as it was, and so does every step that
\* does not end Login.
C31_StoreOnlyOnCompleted ==
    /\ [][store' # store
            => /\ lpc = "polling" /\ lpc' = "done"
               /\ lastPoll'.kind = "json" /\ lastPoll'.state = "completed"
               /\ lastPoll'.apiKey.present]_vars
    /\ [][(~loginResult.done /\ loginResult'.done /\ ~loginResult'.err.nil
              /\ loginResult'.err.msg # ErrStoreKey)
            => store' = store]_vars
    /\ [][lpc' # "done" => store' = store]_vars

C31_Witness ==
    /\ lpc = "done"
    /\ lastPoll.state = "completed" /\ ~lastPoll.apiKey.present
    /\ loginResult = Return("", Err(ErrNoApiKey))
    /\ store = [init |-> TRUE, active |-> "work",
                profiles |-> MapPut(EmptyMap, "default", "old")]

\* C32: whenever Login returns without error the returned key is not empty
\* and a lookup of the profile succeeds with it.
C32_NoEmptyKeySuccess ==
    (lpc = "done" /\ loginResult.done /\ loginResult.err.nil)
       => /\ loginResult.key # ""
          /\ GetStoredAPIKey(store, IF profile = "" THEN "default" ELSE profile).err.nil
          /\ GetStoredAPIKey(store, IF profile = "" THEN "default" ELSE profile).key
                = loginResult.key

\* C33: on an initialized store, for every key k and every profile argument
\* p, the empty one included, a lookup of p after StoreAPIKey(k, p) returns
\* k, and a lookup of p after DeleteAPIKey(p) returns an error, whatever the
\* active profile is.
C33_StoreRoundTrip ==
    procStore.init =>
        \A k \in StoredKeys, p \in StoreProfiles, diskOK \in BOOLEAN :
            /\ GetStoredAPIKey(StoreAPIKey(procStore, k, p, diskOK).store, p)
                  = [key |-> k, err |-> NilErr]
            /\ ~GetStoredAPIKey(DeleteAPIKey(procStore, p, diskOK).store, p).err.nil

\* C34: a StoreAPIKey, DeleteAPIKey or SetActiveProfile that returns an
\* error on an initialized store (the file could not be written) leaves the
\* in-memory store as it was before the call.
C34_FailedSaveRollsBack ==
    [][(/\ procStore.init
        /\ lastOp'.op \in {"StoreAPIKey", "DeleteAPIKey", "SetActiveProfile"}
        /\ ~lastOp'.err.nil)
          => /\ procStore' = procStore
             /\ credFile' = credFile]_vars

\* C35: InitStore on an initialized store returns nil and changes neither
\* the in-memory store nor the file: it does not reload.
C35_InitOnce ==
    [][(procStore.init /\ lastOp'.op = "InitStore")
          => /\ lastOp'.err = NilErr
             /\ procStore' = procStore
             /\ credFile' = credFile]_vars

C35_Witness ==
    /\ lastOp = Op("InitStore", "", "", <<>>, NilErr)
    /\ procStore.init
    /\ credFile.exists
    /\ procStore.profiles # credFile.profiles

\* C36: a logout that returns successfully, with or without the revoke
\* warning, leaves no key for its profile in the credentials file and keeps
\* the other profiles' keys and the active profile; a failed revoke is never
\* the error a logout returns.
C36_LogoutRemovesLocalKey ==
    /\ [][(lastOp'.op = "logout" /\ lastOp'.err.nil)
            => /\ StoredCredential(credFile, lastOp'.prof) # ""
               /\ StoredCredential(credFile', lastOp'.prof) = ""
               /\ \A q \in CmdProfiles \ {lastOp'.prof} :
                      StoredCredential(credFile', q) = StoredCredential(credFile, q)
               /\ credFile'.active
                     = (IF credFile.active = "" THEN "default" ELSE credFile.active)]_vars
    /\ [][(lastOp'.op = "logout" /\ ~lastOp'.err.nil)
            => lastOp'.err.msg \in {ErrRequireStore, ErrReadFile, ErrNotAuthenticated,
                                    ErrRemoveLocal}]_vars

C36_Witness ==
    /\ lastOp = Op("logout", "work", "warning", <<>>, NilErr)
    /\ StoredCredential(credFile, "work") = ""
    /\ StoredCredential(credFile, "default") = "k1"
    /\ credFile.active = "work"

(***************************************************************************)
(* Properties of the auto-pagination.                                      *)
(***************************************************************************)
\* C37: GetAllEvents issues no request after a page whose meta is missing or
\* has hasMore = false, and of two consecutive page requests the second one
\* has the strictly greater offset, so no page is requested twice.
C37_EventsOffsetIncreases ==
    /\ \A i \in 1..(Len(evRequests) - 1) :
          /\ evRequests[i].resp.kind = "page"
          /\ evRequests[i].resp.meta
          /\ evRequests[i].resp.hasMore
    /\ \A i \in 1..(Len(evRequests) - 1) :
          evRequests[i + 1].offset > evRequests[i].offset

\* The emails of the pages among the first n responses, in order.
RECURSIVE FetchedEmails(_, _)
FetchedEmails(rs, n) ==
    IF n = 0 THEN <<>> ELSE FetchedEmails(rs, n - 1) \o rs[n].emails

\* The response asks for another page.
AsksMore(resp) == resp.kind = "page" /\ resp.hasMore /\ resp.nextPageToken # ""

\* C38: GetAllEmails issues at most 100 page requests; no request follows a
\* page with hasMore = false or an empty next-page token; when no request
\* failed it returns the fetched pages concatenated in order, TotalCount is
\* their number of emails, and HasMore is true in the result exactly when
\* the 100th page still asked for more.
C38_EmailsPagination ==
    /\ Len(emResponses) <= maxPages
    /\ \A i \in 1..(Len(emResponses) - 1) : AsksMore(emResponses[i])
    /\ (emPc = "returned" /\ emResult.err.nil) =>
          /\ ~emResult.nil
          /\ Len(emResponses) >= 1
          /\ emResult.emails = FetchedEmails(emResponses, Len(emResponses))
          /\ emResult.totalCount = Len(emResult.emails)
          /\ emResult.hasMore <=>
                (Len(emResponses) = maxPages /\ AsksMore(emResponses[maxPages]))
          /\ ~emResult.hasMore =>
                (emResponses[Len(emResponses)].kind = "page"
                   /\ ~AsksMore(emResponses[Len(emResponses)]))
    /\ (emPc = "returned" /\ ~emResult.err.nil) =>
          /\ emResult.nil
          /\ emResponses[Len(emResponses)].kind = "err"
    /\ emPc = "loop" => Len(emResponses) = page

\* The page limit was hit after 100 requests, with more emails than pages.
C38_Witness ==
    /\ emPc = "returned"
    /\ emResult.hasMore
    /\ Len(emResponses) = maxPages
    /\ emResult.totalCount = maxPages + 2
    /\ emResult.emails[1] = <<1, 1>>
    /\ emResult.emails[emResult.totalCount] = <<maxPages, 1>>

====
